---- MODULE Spec2Model ----
(***************************************************************************)
(* A model of redlines/redlines.py: the paragraph-aware tokenizer, the     *)
(* opcodes computed by difflib.SequenceMatcher over the two token          *)
(* sequences, the markdown and rich renderers, and the Redlines facade     *)
(* (constructor, the source/test setters, the three read-only properties   *)
(* and compare).                                                           *)
(*                                                                         *)
(* Representation.  A text is a sequence of one-character strings; a       *)
(* token is a non-empty text; Python's None is the empty tuple None and a  *)
(* present value x is the one-element tuple Some(x).  The markdown output  *)
(* is a sequence of pieces: the characters of the document plus the        *)
(* wrapper literals of the chosen style, each wrapper kept as one piece    *)
(* holding the literal of the source.  The rich output is the plain text   *)
(* of rich.text.Text with the style of the span covering each character    *)
(* ("" where no span covers it).                                           *)
(***************************************************************************)
EXTENDS Integers, Sequences, FiniteSets, TLC

VARIABLES
  _source,   \* Redlines._source
  _test,     \* Redlines._test, None until a test text is assigned
  _seq1,     \* Redlines._seq1, the tokens of the source
  _seq2,     \* Redlines._seq2, None until a test text is assigned
  options,   \* Redlines.options
  call,      \* the last operation called, with its arguments
  ret,       \* what that operation returned, or that it raised
  supplied   \* history: a test text was passed to the constructor, to the
             \* test setter or to compare

vars == <<_source, _test, _seq1, _seq2, options, call, ret, supplied>>

facade == <<_source, _test, _seq1, _seq2, options>>

---------------------------------------------------------------------------
(* Optional values *)

None == <<>>

Some(x) == <<x>>

---------------------------------------------------------------------------
(* Characters and the three regular expressions (lines 9-36) *)

chr_182 == "¶"

\* \s of Python's re, restricted to the characters the model uses
Whitespace == {" ", "\n", "\t"}

\* the class [().?!-] of the tokenizer's second alternative
Punctuation == {"(", ")", ".", "?", "!", "-"}

\* the characters excluded by [^()\s]
WordBreak == {"(", ")"} \cup Whitespace

\* number of consecutive characters of s, from position p on, that lie in C
RECURSIVE SpanIn(_, _, _)
SpanIn(s, p, C) ==
  IF p <= Len(s) /\ s[p] \in C THEN 1 + SpanIn(s, p + 1, C) ELSE 0

\* number of consecutive characters of s, from position p on, that lie outside C
RECURSIVE SpanNotIn(_, _, _)
SpanNotIn(s, p, C) ==
  IF p <= Len(s) /\ s[p] \notin C THEN 1 + SpanNotIn(s, p + 1, C) ELSE 0

\* faulty variant: the pattern without its trailing \s*
tokenizer_without_space(s, p) ==
  LET word == SpanNotIn(s, p, WordBreak)
  IN  IF word > 0 THEN word
      ELSE IF p <= Len(s) /\ s[p] \in Punctuation THEN 1 ELSE 0

\* length of the match of ((?:[^()\s]+|[().?!-])\s*) at position p, 0 if none
tokenizer(s, p) ==
  LET word == SpanNotIn(s, p, WordBreak)
      head == IF word > 0 THEN word
              ELSE IF p <= Len(s) /\ s[p] \in Punctuation THEN 1 ELSE 0
  IN  IF head = 0 THEN 0 ELSE head + SpanIn(s, p + head, Whitespace)

\* length of the match of ((?:\n *)+) at position p, 0 if none
paragraph_pattern(s, p) ==
  IF p <= Len(s) /\ s[p] = "\n" THEN 1 + SpanIn(s, p + 1, {"\n", " "}) ELSE 0

\* re.fullmatch(space_pattern, s), with space_pattern (\s+)
space_pattern(s) == Len(s) > 0 /\ SpanIn(s, 1, Whitespace) = Len(s)

---------------------------------------------------------------------------
(* Strings *)

\* "".join(parts)
RECURSIVE join(_)
join(parts) == IF parts = <<>> THEN <<>> ELSE Head(parts) \o join(Tail(parts))

\* s.strip()
strip(s) ==
  LET lead == SpanIn(s, 1, Whitespace)
      last == CHOOSE k \in 0..Len(s) :
                /\ k = 0 \/ s[k] \notin Whitespace
                /\ \A m \in (k + 1)..Len(s) : s[m] \in Whitespace
  IN  IF lead = Len(s) THEN <<>> ELSE SubSeq(s, lead + 1, last)

---------------------------------------------------------------------------
(* Tokenizer (lines 39-81) *)

\* re.findall(tokenizer, text), scanning from position p
RECURSIVE FindAllFrom(_, _)
FindAllFrom(text, p) ==
  IF p > Len(text) THEN <<>>
  ELSE LET m == tokenizer(text, p)
       IN  IF m = 0 THEN FindAllFrom(text, p + 1)
           ELSE <<SubSeq(text, p, p + m - 1)>> \o FindAllFrom(text, p + m)

tokenize_text(text) == FindAllFrom(text, 1)

\* re.split(paragraph_pattern, text): the pieces between the matches and,
\* the pattern being one capturing group, the matches themselves; q is the
\* start of the current piece, p the scanning position
RECURSIVE SplitParaFrom(_, _, _)
SplitParaFrom(text, q, p) ==
  IF p > Len(text) THEN <<SubSeq(text, q, Len(text))>>
  ELSE LET m == paragraph_pattern(text, p)
       IN  IF m = 0 THEN SplitParaFrom(text, q, p + 1)
           ELSE <<SubSeq(text, q, p - 1), SubSeq(text, p, p + m - 1)>>
                  \o SplitParaFrom(text, p + m, p + m)

\* the loop of split_paragraphs over split_text
RECURSIVE KeepParagraphs(_)
KeepParagraphs(split_text) ==
  IF split_text = <<>> THEN <<>>
  ELSE LET s == Head(split_text)
       IN  (IF s # <<>> /\ ~space_pattern(s) THEN <<strip(s)>> ELSE <<>>)
             \o KeepParagraphs(Tail(split_text))

split_paragraphs(text) == KeepParagraphs(SplitParaFrom(text, 1, 1))

\* the loop of concatenate_paragraphs_and_add_chr_182: every paragraph
\* followed by " ¶ "
RECURSIVE AppendMarkers(_)
AppendMarkers(paragraphs) ==
  IF paragraphs = <<>> THEN <<>>
  ELSE <<Head(paragraphs), <<" ", chr_182, " ">> >>
         \o AppendMarkers(Tail(paragraphs))

\* result.pop() if the list has an element
Pop(result) ==
  IF Len(result) > 0 THEN SubSeq(result, 1, Len(result) - 1) ELSE result

concatenate_paragraphs_and_add_chr_182(text) ==
  join(Pop(AppendMarkers(split_paragraphs(text))))

---------------------------------------------------------------------------
(* difflib.SequenceMatcher(None, a, b), as called at lines 177-180.         *)
(* Indices are Python's: 0-based, ranges half-open.  isjunk is None, so no  *)
(* element is junk; autojunk keeps its default True, which drops the        *)
(* popular elements of b from the index once b has AutoJunkMinLen elements. *)

AutoJunkMinLen == 200

Occurrences(b, x) == Cardinality({k \in 1..Len(b) : b[k] = x})

\* the elements of b that __chain_b removes from b2j as popular
bpopular(b) ==
  IF Len(b) >= AutoJunkMinLen
  THEN {x \in {b[k] : k \in 1..Len(b)} : Occurrences(b, x) > (Len(b) \div 100) + 1}
  ELSE {}

\* length of the longest common run a[i:i+k] = b[j:j+k] inside a[:ahi],
\* b[:bhi] made of elements that b2j indexes
RECURSIVE RunLen(_, _, _, _, _, _)
RunLen(a, b, i, j, ahi, bhi) ==
  IF i < ahi /\ j < bhi /\ a[i + 1] = b[j + 1] /\ b[j + 1] \notin bpopular(b)
  THEN 1 + RunLen(a, b, i + 1, j + 1, ahi, bhi)
  ELSE 0

\* how far the block (i, j, k) is extended to the left by equal elements
RECURSIVE ExtendLeft(_, _, _, _, _, _)
ExtendLeft(a, b, i, j, alo, blo) ==
  IF i > alo /\ j > blo /\ a[i] = b[j]
  THEN 1 + ExtendLeft(a, b, i - 1, j - 1, alo, blo)
  ELSE 0

\* how far the block ending before (i, j) is extended to the right
RECURSIVE ExtendRight(_, _, _, _, _, _)
ExtendRight(a, b, i, j, ahi, bhi) ==
  IF i < ahi /\ j < bhi /\ a[i + 1] = b[j + 1]
  THEN 1 + ExtendRight(a, b, i + 1, j + 1, ahi, bhi)
  ELSE 0

Max(S) == CHOOSE x \in S : \A y \in S : y <= x

Min(S) == CHOOSE x \in S : \A y \in S : x <= y

ExtendedBy(i, j, k, l, r) == <<i - l, j - l, l + k + r>>

\* the block (besti, bestj, bestsize) extended on both sides by equal elements
Extended(a, b, alo, ahi, blo, bhi, besti, bestj, bestsize) ==
  ExtendedBy(besti, bestj, bestsize,
             ExtendLeft(a, b, besti, bestj, alo, blo),
             ExtendRight(a, b, besti + bestsize, bestj + bestsize, ahi, bhi))

\* SequenceMatcher.find_longest_match: the longest block of indexed
\* elements, of those the one starting earliest in a, of those the one
\* starting earliest in b; then extended on both sides by equal elements
find_longest_match(a, b, alo, ahi, blo, bhi) ==
  LET I == alo..(ahi - 1)
      J == blo..(bhi - 1)
      sizes == {RunLen(a, b, i, j, ahi, bhi) : i \in I, j \in J}
      bestsize == Max(sizes \cup {0})
      besti == Min({i \in I : \E j \in J : RunLen(a, b, i, j, ahi, bhi) = bestsize})
      bestj == Min({j \in J : RunLen(a, b, besti, j, ahi, bhi) = bestsize})
  IN  IF bestsize = 0
      THEN <<alo, blo, ExtendRight(a, b, alo, blo, ahi, bhi)>>
      ELSE Extended(a, b, alo, ahi, blo, bhi, besti, bestj, bestsize)

\* the blocks get_matching_blocks collects from its queue, sorted: x is the
\* block (i, j, k) found in a[alo:ahi], b[blo:bhi], and the queue receives
\* what lies to its left and to its right
RECURSIVE MatchingBlocksAround(_, _, _, _, _, _, _)
MatchingBlocksAround(a, b, alo, ahi, blo, bhi, x) ==
  IF x[3] = 0 THEN <<>>
  ELSE (IF alo < x[1] /\ blo < x[2]
        THEN MatchingBlocksAround(a, b, alo, x[1], blo, x[2],
               find_longest_match(a, b, alo, x[1], blo, x[2]))
        ELSE <<>>)
       \o <<x>>
       \o (IF x[1] + x[3] < ahi /\ x[2] + x[3] < bhi
           THEN MatchingBlocksAround(a, b, x[1] + x[3], ahi, x[2] + x[3], bhi,
                  find_longest_match(a, b, x[1] + x[3], ahi, x[2] + x[3], bhi))
           ELSE <<>>)

MatchingBlocksIn(a, b, alo, ahi, blo, bhi) ==
  MatchingBlocksAround(a, b, alo, ahi, blo, bhi,
                       find_longest_match(a, b, alo, ahi, blo, bhi))

\* the loop of get_matching_blocks that merges adjacent blocks; cur is
\* (i1, j1, k1)
RECURSIVE Coalesce(_, _)
Coalesce(blocks, cur) ==
  IF blocks = <<>> THEN (IF cur[3] > 0 THEN <<cur>> ELSE <<>>)
  ELSE LET nxt == Head(blocks)
       IN  IF cur[1] + cur[3] = nxt[1] /\ cur[2] + cur[3] = nxt[2]
           THEN Coalesce(Tail(blocks), <<cur[1], cur[2], cur[3] + nxt[3]>>)
           ELSE (IF cur[3] > 0 THEN <<cur>> ELSE <<>>)
                  \o Coalesce(Tail(blocks), nxt)

\* faulty variant: the closing block (la, lb, 0) is not appended
get_matching_blocks_open(a, b) ==
  Coalesce(MatchingBlocksIn(a, b, 0, Len(a), 0, Len(b)), <<0, 0, 0>>)

get_matching_blocks(a, b) ==
  Coalesce(MatchingBlocksIn(a, b, 0, Len(a), 0, Len(b)), <<0, 0, 0>>)
    \o << <<Len(a), Len(b), 0>> >>

\* faulty variant: the "if size:" before the equal opcode is forgotten
RECURSIVE OpcodesFromUnguarded(_, _, _)
OpcodesFromUnguarded(blocks, i, j) ==
  IF blocks = <<>> THEN <<>>
  ELSE LET ai == Head(blocks)[1]
           bj == Head(blocks)[2]
           size == Head(blocks)[3]
           tag == IF i < ai /\ j < bj THEN "replace"
                  ELSE IF i < ai THEN "delete"
                  ELSE IF j < bj THEN "insert"
                  ELSE ""
       IN  (IF tag # "" THEN << <<tag, i, ai, j, bj>> >> ELSE <<>>)
           \o << <<"equal", ai, ai + size, bj, bj + size>> >>
           \o OpcodesFromUnguarded(Tail(blocks), ai + size, bj + size)

\* the loop of get_opcodes; (i, j) is where the previous block ended
RECURSIVE OpcodesFrom(_, _, _)
OpcodesFrom(blocks, i, j) ==
  IF blocks = <<>> THEN <<>>
  ELSE LET ai == Head(blocks)[1]
           bj == Head(blocks)[2]
           size == Head(blocks)[3]
           tag == IF i < ai /\ j < bj THEN "replace"
                  ELSE IF i < ai THEN "delete"
                  ELSE IF j < bj THEN "insert"
                  ELSE ""
       IN  (IF tag # "" THEN << <<tag, i, ai, j, bj>> >> ELSE <<>>)
           \o (IF size > 0
               THEN << <<"equal", ai, ai + size, bj, bj + size>> >> ELSE <<>>)
           \o OpcodesFrom(Tail(blocks), ai + size, bj + size)

get_opcodes(a, b) == OpcodesFrom(get_matching_blocks(a, b), 0, 0)

\* seq[i1:i2]
Slice(seq, i1, i2) == SubSeq(seq, i1 + 1, i2)

---------------------------------------------------------------------------
(* Options and the style table of output_markdown (lines 254-311).  An      *)
(* options bag is a function from option names to optional strings.         *)

NoOptions == [k \in {} |-> None]

\* f"{value}" of an option value
Format(value) == IF value = None THEN "None" ELSE value[1]

Style(ins0, ins1, del0, del1) ==
  [ins |-> <<ins0, ins1>>, del |-> <<del0, del1>>]

default_style ==
  Style("<span style='color:green;font-weight:700;'>", "</span>",
        "<span style='color:red;font-weight:700;text-decoration:line-through;'>",
        "</span>")

\* lines 268-311: the table chosen when the key markdown_style is present
\* and holds style
named_style(style, opts) ==
  IF style = Some("none") \/ style = None
  THEN Style("<ins>", "</ins>", "<del>", "</del>")
  ELSE IF style = Some("red")
  THEN Style("<span style='color:red;font-weight:700;'>", "</span>",
             "<span style='color:red;font-weight:700;text-decoration:line-through;'>",
             "</span>")
  ELSE IF style = Some("custom_css")
  THEN LET ins_class == IF "ins_class" \in DOMAIN opts
                        THEN Format(opts["ins_class"])
                        ELSE "redline-inserted"
           del_class == IF "del_class" \in DOMAIN opts
                        THEN Format(opts["del_class"])
                        ELSE "redline-deleted"
       IN  Style("<span class='" \o ins_class \o "'>", "</span>",
                 "<span class='" \o del_class \o "'>", "</span>")
  ELSE IF style = Some("ghfm")
  THEN Style("**", "**", "~~", "~~")
  ELSE IF style = Some("bbcode")
  THEN Style("[b][color=green]", "[/color][/b]",
             "[s][color=red]", "[/color][/s]")
  ELSE default_style

\* faulty variant: with no markdown_style key the <ins>/<del> table is used
md_styles_plain_default(opts) ==
  IF "markdown_style" \in DOMAIN opts
  THEN named_style(opts["markdown_style"], opts)
  ELSE Style("<ins>", "</ins>", "<del>", "</del>")

md_styles(opts) ==
  IF "markdown_style" \in DOMAIN opts
  THEN named_style(opts["markdown_style"], opts)
  ELSE default_style

---------------------------------------------------------------------------
(* The two uses of the pattern "¶ " by the renderers *)

IsMarkerAt(s, p) == p + 1 <= Len(s) /\ s[p] = chr_182 /\ s[p + 1] = " "

\* re.sub("¶ ", "\n\n", s), scanning from position p
RECURSIVE SubMarkerFrom(_, _)
SubMarkerFrom(s, p) ==
  IF p > Len(s) THEN <<>>
  ELSE IF IsMarkerAt(s, p) THEN <<"\n", "\n">> \o SubMarkerFrom(s, p + 2)
  ELSE <<s[p]>> \o SubMarkerFrom(s, p + 1)

re_sub_marker(s) == SubMarkerFrom(s, 1)

\* re.split("¶ ", s); q is the start of the current fragment
RECURSIVE SplitMarkerFrom(_, _, _)
SplitMarkerFrom(s, q, p) ==
  IF p > Len(s) THEN <<SubSeq(s, q, Len(s))>>
  ELSE IF IsMarkerAt(s, p)
  THEN <<SubSeq(s, q, p - 1)>> \o SplitMarkerFrom(s, p + 2, p + 2)
  ELSE SplitMarkerFrom(s, q, p + 1)

re_split_marker(s) == SplitMarkerFrom(s, 1, 1)

---------------------------------------------------------------------------
(* output_markdown (lines 313-346) *)

\* f"{md_styles[kind][0]}{text}{md_styles[kind][1]}"
Wrap(pair, text) == <<pair[1]>> \o text \o <<pair[2]>>

\* the loop over splits: every wrapped fragment followed by "\n\n"
RECURSIVE MarkdownSplits(_, _)
MarkdownSplits(splits, pair) ==
  IF splits = <<>> THEN <<>>
  ELSE <<Wrap(pair, Head(splits)), <<"\n", "\n">> >>
         \o MarkdownSplits(Tail(splits), pair)

\* the insert branch, also the second half of the replace branch: the
\* entries appended to result, the last "\n\n" popped
markdown_insert(slice, styles) ==
  Pop(MarkdownSplits(re_split_marker(join(slice)), styles.ins))

\* the delete branch, also the first half of the replace branch
markdown_delete(slice, styles) == <<Wrap(styles.del, join(slice))>>

\* the entries one opcode appends to result
markdown_opcode(op, seq1, seq2, styles) ==
  LET tag == op[1]
      src == Slice(seq1, op[2], op[3])
      tst == Slice(seq2, op[4], op[5])
  IN  IF tag = "equal" THEN <<re_sub_marker(join(src))>>
      ELSE IF tag = "insert" THEN markdown_insert(tst, styles)
      ELSE IF tag = "delete" THEN markdown_delete(src, styles)
      ELSE IF tag = "replace"
      THEN markdown_delete(src, styles) \o markdown_insert(tst, styles)
      ELSE <<>>

RECURSIVE MarkdownLoop(_, _, _, _)
MarkdownLoop(ops, seq1, seq2, styles) ==
  IF ops = <<>> THEN <<>>
  ELSE markdown_opcode(Head(ops), seq1, seq2, styles)
         \o MarkdownLoop(Tail(ops), seq1, seq2, styles)

output_markdown(seq1, seq2, opts) ==
  join(MarkdownLoop(get_opcodes(seq1, seq2), seq1, seq2, md_styles(opts)))

---------------------------------------------------------------------------
(* output_rich (lines 351-372) *)

\* Text.append(text, style): the characters of text, each under style
Styled(text, style) == [k \in 1..Len(text) |-> <<text[k], style>>]

\* the loop over splits: console_text.append(split, "green")
RECURSIVE RichSplits(_)
RichSplits(splits) ==
  IF splits = <<>> THEN <<>>
  ELSE Styled(Head(splits), "green") \o RichSplits(Tail(splits))

rich_insert(slice) == RichSplits(re_split_marker(join(slice)))

rich_delete(slice) == Styled(join(slice), "strike red")

rich_opcode(op, seq1, seq2) ==
  LET tag == op[1]
      src == Slice(seq1, op[2], op[3])
      tst == Slice(seq2, op[4], op[5])
  IN  IF tag = "equal" THEN Styled(re_sub_marker(join(src)), "")
      ELSE IF tag = "insert" THEN rich_insert(tst)
      ELSE IF tag = "delete" THEN rich_delete(src)
      ELSE IF tag = "replace" THEN rich_delete(src) \o rich_insert(tst)
      ELSE <<>>

RECURSIVE RichLoop(_, _, _)
RichLoop(ops, seq1, seq2) ==
  IF ops = <<>> THEN <<>>
  ELSE rich_opcode(Head(ops), seq1, seq2) \o RichLoop(Tail(ops), seq1, seq2)

output_rich(seq1, seq2) == RichLoop(get_opcodes(seq1, seq2), seq1, seq2)

---------------------------------------------------------------------------
(* The Redlines facade (lines 84-180, 374-396) *)

\* bool(x) of an optional text: neither None nor ""
Truthy(x) == x # None /\ x[1] # <<>>

Raise == [kind |-> "error", val |-> <<>>]

Return(kind, val) == [kind |-> kind, val |-> val]

ReturnNone == Return("none", <<>>)

Called(op, arg, output, opts) ==
  [op |-> op, arg |-> arg, output |-> output, opts |-> opts]

\* the source setter: the new _source and _seq1
source_setter(value) ==
  [text |-> value,
   seq |-> tokenize_text(concatenate_paragraphs_and_add_chr_182(value))]

\* faulty variant: the text is tokenized without its paragraph markers
test_setter_unmarked(value) ==
  [text |-> Some(value), seq |-> Some(tokenize_text(value))]

\* the test setter: the new _test and _seq2
test_setter(value) ==
  [text |-> Some(value),
   seq |-> Some(tokenize_text(concatenate_paragraphs_and_add_chr_182(value)))]

\* __init__: the fields of the constructed object
Redlines_init(source, test, opts) ==
  [source |-> source_setter(source),
   test |-> IF Truthy(test) THEN test_setter(test[1])
            ELSE [text |-> None, seq |-> None],
   options |-> opts]

\* the guard of the opcodes property
opcodes_raises(seq2) == seq2 = None

\* the opcodes property
Redlines_opcodes(seq1, seq2) ==
  IF opcodes_raises(seq2) THEN Raise
  ELSE Return("opcodes", get_opcodes(seq1, seq2[1]))

\* the output_markdown property; self.opcodes raises inside it
Redlines_output_markdown(seq1, seq2, opts) ==
  IF opcodes_raises(seq2) THEN Raise
  ELSE Return("markdown", output_markdown(seq1, seq2[1], opts))

\* the output_rich property
Redlines_output_rich(seq1, seq2) ==
  IF opcodes_raises(seq2) THEN Raise
  ELSE Return("rich", output_rich(seq1, seq2[1]))

\* compare, line 383: the test passed is the one already stored
compare_same_test(test) == Truthy(test) /\ Truthy(_test) /\ test = _test

\* faulty variant: compare leaves the missing test to output_markdown
compare_never_raises(test) == FALSE

\* compare, line 387: no test passed and none stored
compare_raises(test) == ~Truthy(test) /\ _test = None

\* compare from line 392 on, the test being t and the options passed opts
CompareRender(t, output, o) ==
  [test |-> t, options |-> o,
   ret |-> IF output = "markdown"
           THEN Redlines_output_markdown(_seq1, t.seq, o)
           ELSE ReturnNone]

\* compare: the test and options it leaves and what it returns
Redlines_compare(test, output, opts) ==
  IF compare_same_test(test) \/ compare_raises(test)
  THEN [test |-> [text |-> _test, seq |-> _seq2], options |-> options,
        ret |-> IF compare_same_test(test)
                THEN Redlines_output_markdown(_seq1, _seq2, options)
                ELSE Raise]
  ELSE CompareRender(IF Truthy(test) THEN test_setter(test[1])
                     ELSE [text |-> _test, seq |-> _seq2],
                     output,
                     IF opts # NoOptions THEN opts ELSE options)

---------------------------------------------------------------------------
(* Operations *)

\* the state holding the object r that __init__ leaves
Constructed(r) ==
  /\ _source = r.source.text
  /\ _seq1 = r.source.seq
  /\ _test = r.test.text
  /\ _seq2 = r.test.seq
  /\ options = r.options

Construct(source, test, opts) ==
  /\ Constructed(Redlines_init(source, test, opts))
  /\ call = Called("__init__", test, "", opts)
  /\ ret = ReturnNone
  /\ supplied = (test # None)

\* the step that stores s as the source and its tokens
StoreSource(s) == _source' = s.text /\ _seq1' = s.seq

\* the step that stores t as the test and its tokens
StoreTest(t) == _test' = t.text /\ _seq2' = t.seq

SetSource(value) ==
  /\ StoreSource(source_setter(value))
  /\ call' = Called("source", Some(value), "", NoOptions)
  /\ ret' = ReturnNone
  /\ UNCHANGED <<_test, _seq2, options, supplied>>

SetTest(value) ==
  /\ StoreTest(test_setter(value))
  /\ call' = Called("test", Some(value), "", NoOptions)
  /\ ret' = ReturnNone
  /\ supplied' = TRUE
  /\ UNCHANGED <<_source, _seq1, options>>

ReadOpcodes ==
  /\ ret' = Redlines_opcodes(_seq1, _seq2)
  /\ call' = Called("opcodes", None, "", NoOptions)
  /\ UNCHANGED <<_source, _test, _seq1, _seq2, options, supplied>>

ReadOutputMarkdown ==
  /\ ret' = Redlines_output_markdown(_seq1, _seq2, options)
  /\ call' = Called("output_markdown", None, "", NoOptions)
  /\ UNCHANGED <<_source, _test, _seq1, _seq2, options, supplied>>

ReadOutputRich ==
  /\ ret' = Redlines_output_rich(_seq1, _seq2)
  /\ call' = Called("output_rich", None, "", NoOptions)
  /\ UNCHANGED <<_source, _test, _seq1, _seq2, options, supplied>>

\* the step that stores what compare leaves and returns
Compared(r) == StoreTest(r.test) /\ options' = r.options /\ ret' = r.ret

Compare(test, output, opts) ==
  /\ Compared(Redlines_compare(test, output, opts))
  /\ call' = Called("compare", test, output, opts)
  /\ supplied' = (supplied \/ test # None)
  /\ UNCHANGED <<_source, _seq1>>

---------------------------------------------------------------------------
(* Inputs *)

\* all sequences over S of length at most n
SeqsUpTo(S, n) == UNION {[1..k -> S] : k \in 0..n}

\* "\n".join(paragraphs)
RECURSIVE JoinLines(_)
JoinLines(paragraphs) ==
  IF paragraphs = <<>> THEN <<>>
  ELSE IF Len(paragraphs) = 1 THEN paragraphs[1]
  ELSE paragraphs[1] \o <<"\n">> \o JoinLines(Tail(paragraphs))

MaxParagraphs == 2

MaxTokens == 4

MaxTextLen == 4

Words == {<<"a">>, <<"b">>}

\* the documents of Spec: the empty text, a text of whitespace only, and
\* up to MaxParagraphs one-word paragraphs, one per line, the first being "a"
FacadeTexts ==
  {<<>>, <<" ">>}
    \cup {JoinLines(<< <<"a">> >> \o ps) : ps \in SeqsUpTo(Words, MaxParagraphs - 1)}

\* the documents of SpecDiff: every character is a token of its own
DiffTexts == SeqsUpTo({"(", ")"}, MaxTokens)

\* the documents of SpecTok
TokAlphabet == {"a", ".", "(", " ", "\t", "\n", chr_182}

TokTexts == SeqsUpTo(TokAlphabet, MaxTextLen)

Optional(S) == {None} \cup {Some(x) : x \in S}

StyleNames == {"none", "red", "custom_css", "ghfm", "bbcode", "typo"}

OptionBags ==
  {NoOptions}
    \cup {[markdown_style |-> v] : v \in Optional(StyleNames)}
    \cup {[markdown_style |-> Some("custom_css"), ins_class |-> Some("added"),
           del_class |-> Some("removed")]}

\* the option bags passed to compare
CompareOptionBags ==
  {NoOptions, [markdown_style |-> Some("ghfm")], [markdown_style |-> None]}

Outputs == {"markdown", "html"}

---------------------------------------------------------------------------
(* Spec: the facade over FacadeTexts *)

Init ==
  \E source \in FacadeTexts, test \in Optional(FacadeTexts), opts \in OptionBags :
    Construct(source, test, opts)

Next ==
  \/ \E value \in FacadeTexts : SetSource(value)
  \/ \E value \in FacadeTexts : SetTest(value)
  \/ ReadOpcodes
  \/ ReadOutputMarkdown
  \/ ReadOutputRich
  \/ \E test \in Optional(FacadeTexts), output \in Outputs,
        opts \in CompareOptionBags : Compare(test, output, opts)

Spec == Init /\ [][Next]_vars

(* SpecDiff: the opcodes of every pair of token sequences over two tokens *)

InitDiff ==
  \E source \in DiffTexts, test \in Optional(DiffTexts) :
    Construct(source, test, NoOptions)

NextDiff ==
  \/ \E value \in DiffTexts : SetTest(value)
  \/ ReadOpcodes

SpecDiff == InitDiff /\ [][NextDiff]_vars

(* SpecTok: the tokens of every text over TokAlphabet, diffed with itself *)

InitTok ==
  \E source \in TokTexts : \E test \in {None, Some(source)} :
    Construct(source, test, NoOptions)

NextTok == ReadOpcodes

SpecTok == InitTok /\ [][NextTok]_vars

---------------------------------------------------------------------------
(* Vocabulary of the properties *)

Reads == {"opcodes", "output_markdown", "output_rich"}

\* the tokens the setters store for a text
Tokens(text) == tokenize_text(concatenate_paragraphs_and_add_chr_182(text))

\* the opcodes of the stored token sequences (a test must be stored)
CurrentOpcodes == get_opcodes(_seq1, _seq2[1])

\* the characters documents are made of; every other piece of a markdown
\* output is a wrapper
DocumentChars == TokAlphabet \cup {"a", "b", "(", ")", " ", "\n", "\t"}

Elements(seq) == {seq[k] : k \in 1..Len(seq)}

WrappersOf(out) == Elements(out) \ DocumentChars

\* text.split(sep) for a one-character separator; q starts the current piece
RECURSIVE SplitAtFrom(_, _, _, _)
SplitAtFrom(text, sep, q, p) ==
  IF p > Len(text) THEN <<SubSeq(text, q, Len(text))>>
  ELSE IF text[p] = sep
  THEN <<SubSeq(text, q, p - 1)>> \o SplitAtFrom(text, sep, p + 1, p + 1)
  ELSE SplitAtFrom(text, sep, q, p + 1)

\* the paragraphs of a text as the specification words them: the lines of
\* the text, trimmed, the empty ones dropped
RECURSIVE TrimmedNonEmpty(_)
TrimmedNonEmpty(lines) ==
  IF lines = <<>> THEN <<>>
  ELSE (IF strip(Head(lines)) # <<>> THEN <<strip(Head(lines))>> ELSE <<>>)
         \o TrimmedNonEmpty(Tail(lines))

Paragraphs(text) == TrimmedNonEmpty(SplitAtFrom(text, "\n", 1, 1))

\* the paragraphs joined by " ¶ "
RECURSIVE JoinWithMarker(_)
JoinWithMarker(paragraphs) ==
  IF paragraphs = <<>> THEN <<>>
  ELSE IF Len(paragraphs) = 1 THEN paragraphs[1]
  ELSE paragraphs[1] \o <<" ", chr_182, " ">> \o JoinWithMarker(Tail(paragraphs))

NormalForm(text) == JoinWithMarker(Paragraphs(text))

\* number of occurrences of "¶ " in s, counted from position p
RECURSIVE MarkersFrom(_, _)
MarkersFrom(s, p) ==
  IF p > Len(s) THEN 0
  ELSE IF IsMarkerAt(s, p) THEN 1 + MarkersFrom(s, p + 2)
  ELSE MarkersFrom(s, p + 1)

\* number of "\n\n" among the pieces of out from position p on that lie
\* outside the runs opened by pair[1] and closed by pair[2]
RECURSIVE BreaksOutsideFrom(_, _, _, _)
BreaksOutsideFrom(out, pair, p, inside) ==
  IF p > Len(out) THEN 0
  ELSE IF inside
  THEN BreaksOutsideFrom(out, pair, p + 1, out[p] # pair[2])
  ELSE IF out[p] = pair[1] THEN BreaksOutsideFrom(out, pair, p + 1, TRUE)
  ELSE IF p + 1 <= Len(out) /\ out[p] = "\n" /\ out[p + 1] = "\n"
  THEN 1 + BreaksOutsideFrom(out, pair, p + 2, FALSE)
  ELSE BreaksOutsideFrom(out, pair, p + 1, FALSE)

\* number of "\n\n" among the characters of a rich text, whatever their style
RECURSIVE RichBreaksFrom(_, _)
RichBreaksFrom(text, p) ==
  IF p + 1 > Len(text) THEN 0
  ELSE IF text[p][1] = "\n" /\ text[p + 1][1] = "\n"
  THEN 1 + RichBreaksFrom(text, p + 2)
  ELSE RichBreaksFrom(text, p + 1)

\* position of the first wrapper of out, Len(out) + 1 if it has none
RECURSIVE FirstWrapperFrom(_, _)
FirstWrapperFrom(out, p) ==
  IF p > Len(out) \/ out[p] \notin DocumentChars THEN p
  ELSE FirstWrapperFrom(out, p + 1)

\* s without its whitespace
RECURSIVE Squeeze(_)
Squeeze(s) ==
  IF s = <<>> THEN <<>>
  ELSE (IF Head(s) \in Whitespace THEN <<>> ELSE <<Head(s)>>) \o Squeeze(Tail(s))

\* test is source followed by one more paragraph on a new line
IsAppended(source, test, paragraph) ==
  /\ Paragraphs(source) # <<>>
  /\ Paragraphs(paragraph) = <<paragraph>>
  /\ test = source \o <<"\n">> \o paragraph

---------------------------------------------------------------------------
(* C1: compare(test, options) with a non-empty test and a non-empty        *)
(* options bag stores the test, its tokens and the options, and returns    *)
(* the markdown of source against that test under those options, also      *)
(* when the test passed equals the test already stored.                    *)
C1_CompareStoresThenRenders ==
  (/\ call.op = "compare"
   /\ Truthy(call.arg)
   /\ call.opts # NoOptions
   /\ call.output = "markdown")
  => /\ _test = call.arg
     /\ _seq2 = Some(Tokens(call.arg[1]))
     /\ options = call.opts
     /\ ret.kind = "markdown"
     /\ ret.val = output_markdown(_seq1, Tokens(call.arg[1]), call.opts)

(* C2: while no test text has been supplied, opcodes, output_markdown,     *)
(* output_rich and compare without a test raise, and the failing call      *)
(* leaves source, test, options and both token sequences as they were.     *)
C2_MissingTestRaises ==
  [][(/\ ~supplied
      /\ call'.op \in Reads \cup {"compare"}
      /\ call'.arg = None)
     => (ret'.kind = "error" /\ UNCHANGED facade)]_vars

C2_Witness ==
  /\ ~supplied
  /\ call.op = "compare"
  /\ call.arg = None
  /\ call.opts # NoOptions
  /\ call.opts # options
  /\ ret.kind = "error"

(* C3: once a test text has been supplied, be it empty or whitespace, no   *)
(* read of opcodes, output_markdown or output_rich and no compare raises.  *)
C3_SuppliedTestNeverRaises ==
  (supplied /\ call.op \in Reads \cup {"compare"}) => ret.kind # "error"

(* C4: the opcodes returned are ordered and contiguous: the first starts   *)
(* at (0, 0), each starts where the previous one ends, the last ends at    *)
(* (len(source tokens), len(test tokens)), every tag is one of the four,   *)
(* and an equal opcode spans identical slices of the two sequences.        *)
C4_OpcodesContiguous ==
  ret.kind = "opcodes" =>
    LET ops == ret.val
        a == _seq1
        b == _seq2[1]
        n == Len(ops)
    IN  /\ \A k \in 1..n :
             /\ ops[k][1] \in {"equal", "insert", "delete", "replace"}
             /\ ops[k][2] = (IF k = 1 THEN 0 ELSE ops[k - 1][3])
             /\ ops[k][4] = (IF k = 1 THEN 0 ELSE ops[k - 1][5])
             /\ ops[k][2] <= ops[k][3]
             /\ ops[k][4] <= ops[k][5]
             /\ ops[k][1] = "equal" =>
                  Slice(a, ops[k][2], ops[k][3]) = Slice(b, ops[k][4], ops[k][5])
        /\ (IF n = 0 THEN 0 ELSE ops[n][3]) = Len(a)
        /\ (IF n = 0 THEN 0 ELSE ops[n][5]) = Len(b)

C4_Witness ==
  /\ ret.kind = "opcodes"
  /\ Len(ret.val) >= 4
  /\ \E k \in 1..Len(ret.val) : ret.val[k][1] = "replace"
  /\ \E k \in 1..Len(ret.val) : ret.val[k][1] = "equal"

(* C5, as claimed: the opcodes of a token sequence against itself are      *)
(* exactly one opcode (equal, 0, len, 0, len), the empty sequence          *)
(* included.                                                               *)
C5_IdentityOneOpcode ==
  (ret.kind = "opcodes" /\ _seq1 = _seq2[1]) =>
    ret.val = << <<"equal", 0, Len(_seq1), 0, Len(_seq1)>> >>

(* C5, amended: the opcodes of a non-empty token sequence against itself   *)
(* are exactly one opcode (equal, 0, len, 0, len); those of the empty      *)
(* sequence against itself are the empty list.                             *)
C5_IdentityNonEmpty ==
  (ret.kind = "opcodes" /\ _seq1 = _seq2[1]) =>
    ret.val = (IF _seq1 = <<>> THEN <<>>
               ELSE << <<"equal", 0, Len(_seq1), 0, Len(_seq1)>> >>)

C5_Witness ==
  /\ ret.kind = "opcodes"
  /\ _seq1 = _seq2[1]
  /\ Len(_seq1) >= 3
  /\ ret.val = << <<"equal", 0, Len(_seq1), 0, Len(_seq1)>> >>

C7_AppendedParagraph ==
  \A paragraph \in Words :
    (/\ ret.kind = "markdown"
     /\ _test # None
     /\ IsAppended(_source, _test[1], paragraph))
    => LET out == ret.val
           styles == md_styles(options)
           w == FirstWrapperFrom(out, 1)
           plain == SubSeq(out, 1, w - 1)
       IN  /\ chr_182 \notin Elements(out)
           /\ styles.del[1] \notin Elements(out)
           /\ Squeeze(plain) = Squeeze(join(Paragraphs(_source)))
           /\ BreaksOutsideFrom(plain, styles.ins, 1, FALSE)
                = Len(Paragraphs(_source))
           /\ SubSeq(out, w, Len(out)) = Wrap(styles.ins, paragraph)

(* C8: for every insert opcode and the insert half of every replace        *)
(* opcode, the markdown renderer and the rich renderer both emit as many   *)
(* paragraph breaks as the test slice holds markers, outside the           *)
(* insertion-styled runs.                                                  *)
C8_InsertBreaksInBothRenderers ==
  ret.kind \in {"markdown", "rich"} =>
    \A k \in 1..Len(CurrentOpcodes) :
      LET op == CurrentOpcodes[k]
          slice == Slice(_seq2[1], op[4], op[5])
          styles == md_styles(options)
      IN  op[1] \in {"insert", "replace"} =>
            /\ ret.kind = "markdown" =>
                 BreaksOutsideFrom(join(markdown_insert(slice, styles)),
                                   styles.ins, 1, FALSE)
                   = MarkersFrom(join(slice), 1)
            /\ ret.kind = "rich" =>
                 RichBreaksFrom(rich_insert(slice), 1) = MarkersFrom(join(slice), 1)

\* the values of markdown_style that name a dialect
Dialects == {"none", "red", "custom_css", "ghfm", "bbcode"}

DefaultWrappers ==
  {"<span style='color:green;font-weight:700;'>",
   "<span style='color:red;font-weight:700;text-decoration:line-through;'>",
   "</span>"}

\* the markdown returned is styled with the wrappers W, and is styled at
\* all when the opcodes are not all equal
StyledWith(W) ==
  /\ WrappersOf(ret.val) \subseteq W
  /\ (\E k \in 1..Len(CurrentOpcodes) : CurrentOpcodes[k][1] # "equal")
       => WrappersOf(ret.val) # {}

(* C9, as claimed: with markdown_style absent, null, or any string that    *)
(* names no dialect, the markdown uses the default wrappers.               *)
C9_FallbackAlsoForNull ==
  (/\ ret.kind = "markdown"
   /\ \/ "markdown_style" \notin DOMAIN options
      \/ options["markdown_style"] = None
      \/ options["markdown_style"][1] \notin Dialects)
  => StyledWith(DefaultWrappers)

(* C9, amended: with markdown_style absent or a string that names no       *)
(* dialect, the markdown uses the default wrappers (the green bold span    *)
(* and the red bold strikethrough span); with markdown_style null it uses  *)
(* the wrappers of "none", <ins> and <del>.                                *)
C9_FallbackForUnknownNames ==
  ret.kind = "markdown" =>
    /\ (\/ "markdown_style" \notin DOMAIN options
        \/ /\ options["markdown_style"] # None
           /\ options["markdown_style"][1] \notin Dialects)
       => StyledWith(DefaultWrappers)
    /\ ("markdown_style" \in DOMAIN options /\ options["markdown_style"] = None)
       => StyledWith({"<ins>", "</ins>", "<del>", "</del>"})

C9_Witness ==
  /\ ret.kind = "markdown"
  /\ "markdown_style" \in DOMAIN options
  /\ options["markdown_style"] = Some("typo")
  /\ Cardinality(WrappersOf(ret.val)) = 3

\* the cached token sequences are those of the stored texts
CacheConsistent ==
  /\ _seq1 = Tokens(_source)
  /\ (_seq2 = None) <=> (_test = None)
  /\ _test # None => _seq2 = Some(Tokens(_test[1]))

(* C10: in every state the cached source tokens are the tokens of the      *)
(* normalized source, the cached test tokens are absent exactly when the   *)
(* test is unset and otherwise the tokens of the normalized test; reading  *)
(* opcodes or a rendering changes neither text nor either cache.           *)
C10_CacheConsistency ==
  /\ []CacheConsistent
  /\ [][call'.op \in Reads => UNCHANGED <<_source, _test, _seq1, _seq2>>]_vars

C10_Witness ==
  /\ call.op = "compare"
  /\ Truthy(call.arg)
  /\ _test = call.arg
  /\ _seq2 = Some(Tokens(call.arg[1]))
  /\ Len(_seq2[1]) >= 3
  /\ ret.kind = "markdown"

====
